---- MODULE Spec2Model ----
(***************************************************************************)
(* RAGQueryPipeline (services/api/src/core/rag_pipeline.py): the model     *)
(* readiness generator initialize_and_check_models, the graph builder      *)
(* create_query_pipeline and the query entry point run_query.              *)
(*                                                                         *)
(* The collaborators OllamaModelManager, ConversationLogger and            *)
(* PipelineComponentFactory are not part of rag_pipeline.py; what the      *)
(* engine needs of them is modelled from the written specification         *)
(* (sections 4.1 and 6) and kept apart from the engine's own code.         *)
(***************************************************************************)
EXTENDS Integers, Sequences, FiniteSets, TLC

VARIABLES
    config,               \* self.config: the QueryPipelineConfig, read only
    model_manager,        \* self.model_manager: TRUE = an OllamaModelManager, FALSE = None
    conversation_logger,  \* self.conversation_logger: TRUE = a ConversationLogger, FALSE = None
    query_pipeline,       \* self.query_pipeline: NoPipeline (None) or the installed graph
    available,            \* models the serving backend holds locally
    gen,                  \* the generator object of initialize_and_check_models
    log,                  \* the log_conversation calls made so far, by their arguments
    last,                 \* what the latest create_query_pipeline / run_query call did
    builds,               \* number of graphs installed so far
    calls,                \* number of run_query calls so far
    rendering             \* the stages of the latest pipeline execution

vars == <<config, model_manager, conversation_logger, query_pipeline,
          available, gen, log, last, builds, calls, rendering>>

readiness_vars == <<model_manager, available, gen>>
query_vars == <<query_pipeline, log, last, builds, calls>>
prompt_vars == <<rendering>>

(***************************************************************************)
(* Bounds                                                                  *)
(***************************************************************************)
\* progress events one pull may emit before it ends
MaxProgress == 2
\* candidate replies the generator may return
MaxReplies == 2
\* run_query calls in one behaviour
MaxCalls == 2
\* graphs installed in one behaviour
MaxBuilds == 2
\* documents the retriever may return for one query
MaxDocs == 2

(***************************************************************************)
(* Values                                                                  *)
(***************************************************************************)
None == "None"
OLLAMA == "OLLAMA"
HUGGINGFACE == "HUGGINGFACE"
Providers == {OLLAMA, HUGGINGFACE}
\* names config.model_name and config.embedding_model may hold (they may be equal)
ModelNames == {"llm", "emb"}

\* questions and conversation histories
Queries == {"q1", "q2"}
Turn == [role |-> "user", content |-> "hello"]
\* a conversation argument: given = FALSE is None, the default of line 153
Conversation(given, turns) == [given |-> given, turns |-> turns]
NoConversation == Conversation(FALSE, <<>>)
Conversations == {NoConversation, Conversation(TRUE, <<>>), Conversation(TRUE, <<Turn>>)}
\* a second turn, and the histories the prompt is rendered for
Turn2 == [role |-> "assistant", content |-> "hi there"]
PromptConversations ==
    Conversations \cup {Conversation(TRUE, <<Turn, Turn2>>),
                        Conversation(TRUE, <<Turn2, Turn>>),
                        Conversation(TRUE, <<Turn, Turn>>)}
\* retrieved documents (content, meta.file_path), in retrieval order
Doc(content, path) == [content |-> content, meta |-> [file_path |-> path]]
Docs == {Doc("alpha", "a.md"), Doc("beta", "b.md")}
DocSeqs == UNION {[1..n -> Docs] : n \in 0..MaxDocs}
\* self.config.system_prompt
SystemPrompt == "Answer from the context"
\* the text of the k-th candidate reply of a response
Text(k) == ToString(k)
\* exceptions pipeline execution, a build step or the logger may raise, by the
\* except clause that catches them (lines 195, 198, 201)
ExcKinds == {"ValidationError", "BadRequestError", "Exception"}

Configs ==
    [provider : Providers,
     model_name : ModelNames,
     embedding_model : ModelNames,
     allow_model_pull : BOOLEAN,
     enable_conversation_logs : BOOLEAN,
     system_prompt : {SystemPrompt}]

(***************************************************************************)
(* Readiness events                                                        *)
(***************************************************************************)
Event(status, detail) ==
    [type |-> "model_status", status |-> status, detail |-> detail]

HuggingFaceEvent == Event("success", "Using HuggingFace provider")

ErrorEvent(e) == Event("error", e)

ConfigErrorMessage == "Ollama model manager not initialized but provider is Ollama"

RECURSIVE Repeat(_, _)
Repeat(x, n) == IF n = 0 THEN <<>> ELSE <<x>> \o Repeat(x, n - 1)

(***************************************************************************)
(* OllamaModelManager, from the specification (4.1 step 2, 6, 7).          *)
(* verify_and_pull_model(name) is a lazy sequence: a model held locally    *)
(* gives one success event; an absent one is pulled when pulling is        *)
(* permitted (progress events, then success, or a provisioning failure at  *)
(* any point of the pull); when pulling is forbidden it gives one error    *)
(* event and returns.  A plan is the whole run of one such sequence.       *)
(***************************************************************************)
VerifyPlans(name, held, allow_pull) ==
    IF name \in held
    THEN {[events |-> <<Event("success", name)>>, raises |-> FALSE,
           verdict |-> "available"]}
    ELSE IF allow_pull
    THEN {[events |-> Repeat(Event("in_progress", name), k) \o <<Event("success", name)>>,
           raises |-> FALSE, verdict |-> "pulled"] : k \in 0..MaxProgress}
         \cup
         {[events |-> Repeat(Event("in_progress", name), k),
           raises |-> TRUE, verdict |-> "pull_failed"] : k \in 0..MaxProgress}
    ELSE {[events |-> <<Event("error", name)>>, raises |-> FALSE,
           verdict |-> "forbidden"]}

\* the backend after a verify_and_pull_model run has ended
HeldAfter(held, name, verdict) ==
    IF verdict = "pulled" THEN held \cup {name} ELSE held

(***************************************************************************)
(* initialize_and_check_models: the generator object.                      *)
(*   pc      "absent"  no generator has been created                       *)
(*           "start"   created, not started (nothing has run)              *)
(*           "verify"  suspended inside verify_and_pull_model, line 56     *)
(*           "hf"      suspended at the yield of line 58                   *)
(*           "error"   suspended at the yield of line 65                   *)
(*           "done"    returned (StopIteration)                            *)
(*           "raised"  the exception left the generator, line 66           *)
(*   manager what line 45 read, health what line 51 returned, verdicts     *)
(*           what each verify_and_pull_model call found                    *)
(*   exc     the exception the handler of line 63 caught, thrown the one   *)
(*           that left the generator at line 66                            *)
(*   events  what the caller has received; origin[k] is the index of the   *)
(*           required model whose verification gave events[k], 0 for the   *)
(*           generator's own events                                        *)
(***************************************************************************)
NoGenerator ==
    [pc |-> "absent", required |-> <<>>, i |-> 0, rest |-> <<>>, raises |-> FALSE,
     verdict |-> None, events |-> <<>>, origin |-> <<>>, exc |-> None,
     thrown |-> None, nexts |-> 0,
     manager |-> "unread", health |-> "unprobed", health_calls |-> 0, verify_calls |-> <<>>,
     verdicts |-> <<>>]

\* lines 41-42: calling the generator function runs none of its body
FreshGenerator_probes_eagerly ==
    [NoGenerator EXCEPT !.pc = "start", !.health = "ok", !.health_calls = 1]
FreshGenerator == [NoGenerator EXCEPT !.pc = "start"]

\* line 44
UsesOllama_always(provider) == TRUE
UsesOllama(provider) == provider = OLLAMA

\* what line 45 found in self.model_manager
Seen(manager) == IF manager THEN "present" ELSE "missing"

\* line 45
ManagerMissing_unchecked(manager) == FALSE
ManagerMissing(manager) == ~manager

\* line 54
RequiredModels_first_only(cfg) == <<cfg.model_name>>
RequiredModels_embedding_first(cfg) == <<cfg.embedding_model, cfg.model_name>>
RequiredModels(cfg) == <<cfg.model_name, cfg.embedding_model>>

\* line 55: the for loop has another model to verify
HasNextModel_stops_after_first(g) == g.i < 1
HasNextModel(g) == g.i < Len(g.required)

\* a yield: the event reaches the caller and the generator is suspended at pc
Deliver(g, ev, org, pc) ==
    [g EXCEPT !.events = Append(@, ev), !.origin = Append(@, org), !.pc = pc]

\* lines 63-65: the handler yields the error event; the raise of line 66 follows
\* on the next resumption
OnException_generic_message(g, e) ==
    Deliver([g EXCEPT !.exc = e, !.rest = <<>>, !.raises = FALSE],
            ErrorEvent("Model initialization failed"), 0, "error")
OnException_raises_at_once(g, e) ==
    [g EXCEPT !.exc = e, !.rest = <<>>, !.raises = FALSE, !.pc = "raised"]
OnException(g, e) ==
    Deliver([g EXCEPT !.exc = e, !.rest = <<>>, !.raises = FALSE],
            ErrorEvent(e), 0, "error")

\* line 66: the bare raise re-raises the exception the handler caught
Reraise(g) == [g EXCEPT !.pc = "raised", !.thrown = g.exc]

\* line 56: yield from verify_and_pull_model(required[i+1]), up to its first event
StartVerify(g, plan) ==
    LET name == g.required[g.i + 1]
        g1 == [g EXCEPT !.i = @ + 1,
                        !.verify_calls = Append(@, name),
                        !.verdicts = Append(@, plan.verdict),
                        !.verdict = plan.verdict]
    IN IF plan.events = <<>>
       THEN OnException(g1, "PullError")
       ELSE Deliver([g1 EXCEPT !.rest = Tail(plan.events), !.raises = plan.raises],
                    Head(plan.events), g1.i, "verify")

\* lines 55-56, and the fall through to the end of the function
LoopStep(g, plan) ==
    IF HasNextModel(g)
    THEN StartVerify(g, plan)
    ELSE [g EXCEPT !.pc = "done"]

NextPlans(g, held) ==
    IF HasNextModel(g)
    THEN VerifyPlans(g.required[g.i + 1], held, config.allow_model_pull)
    ELSE {[events |-> <<>>, raises |-> FALSE, verdict |-> None]}

(***************************************************************************)
(* create_query_pipeline (lines 121-148).  A graph is the sequence of its  *)
(* component names and the sequence of its connections, in the order they  *)
(* were added, so that adding to a graph twice shows.                      *)
(***************************************************************************)
EmptyPipeline == [present |-> TRUE, nodes |-> <<>>, edges |-> <<>>]
\* self.query_pipeline = None, line 72
NoPipeline == [present |-> FALSE, nodes |-> <<>>, edges |-> <<>>]

\* lines 127-129
Factories == <<"create_embedder", "create_retriever", "create_chat_generator">>

\* lines 131-136
Components == <<"embedder", "retriever", "prompt_builder", "llm">>

\* lines 139-141: sender and receiver of each connect call
Connection(sender, receiver) == [sender |-> sender, receiver |-> receiver]
Connections ==
    <<Connection(<<"embedder", "embedding">>, <<"retriever", "query_embedding">>),
      Connection(<<"retriever", "">>, <<"prompt_builder", "documents">>),
      Connection(<<"prompt_builder", "prompt">>, <<"llm", "messages">>)>>

\* the steps of one build: three factory calls, four add_component, three connect
BuildSteps == Len(Factories) + Len(Components) + Len(Connections)

Min(a, b) == IF a < b THEN a ELSE b
Max(a, b) == IF a > b THEN a ELSE b

\* line 124: the build starts from a new Pipeline(), whatever the engine holds
BuildBase_reuses_graph(existing) ==
    IF existing.present THEN existing ELSE EmptyPipeline
BuildBase(existing) == EmptyPipeline

\* the local variable pipeline after the first k steps of the build
LocalPipeline(base, k) ==
    LET added == Min(Max(k - Len(Factories), 0), Len(Components))
        wired == Max(k - Len(Factories) - Len(Components), 0)
    IN [present |-> TRUE,
        nodes |-> base.nodes \o SubSeq(Components, 1, added),
        edges |-> base.edges \o SubSeq(Connections, 1, wired)]

\* lines 123-148: fail_at = 0 is a build in which no step raises, fail_at = k one
\* in which step k raises; line 143 is reached only when no step raised
CreateQueryPipeline_installs_partial(existing, fail_at, exc) ==
    IF fail_at = 0
    THEN [pipeline |-> LocalPipeline(BuildBase(existing), BuildSteps),
          raised |-> FALSE, exc |-> None]
    ELSE [pipeline |-> LocalPipeline(BuildBase(existing), fail_at - 1),
          raised |-> TRUE, exc |-> exc]
CreateQueryPipeline(existing, fail_at, exc) ==
    IF fail_at = 0
    THEN [pipeline |-> LocalPipeline(BuildBase(existing), BuildSteps),
          raised |-> FALSE, exc |-> None]
    ELSE [pipeline |-> existing, raised |-> TRUE, exc |-> exc]

(***************************************************************************)
(* run_query (lines 150-203)                                               *)
(***************************************************************************)
\* the candidate replies of one response: n replies, each with its own text
Replies(n) == [k \in 1..n |-> [text |-> Text(k)]]
ReplySeqs == {Replies(n) : n \in 0..MaxReplies}

\* the raw result of Pipeline.run
Response(replies) == [llm |-> [replies |-> replies]]

\* what Pipeline.run does with the inputs of lines 162-169: returns or raises
ExecOutcomes ==
    {[kind |-> "ok", response |-> Response(r)] : r \in ReplySeqs}
    \cup {[kind |-> e, response |-> Response(<<>>)] : e \in ExcKinds}

\* what log_conversation does when it is called: returns or raises
LoggerOutcomes(logger, exec) ==
    IF logger /\ exec.kind = "ok" THEN {"ok"} \cup ExcKinds ELSE {"ok"}

\* line 157
NeedsBuild_every_call(pipeline) == TRUE
NeedsBuild(pipeline) == ~pipeline.present

\* line 186
LoggerEnabled_unguarded(logger) == TRUE
LoggerEnabled(logger) == logger

\* lines 174-178
ResponseText_last_reply(response) ==
    IF response.llm.replies # <<>>
    THEN response.llm.replies[Len(response.llm.replies)].text
    ELSE None
ResponseText(response) ==
    IF response.llm.replies # <<>> THEN response.llm.replies[1].text ELSE None

\* line 187: the arguments handed to log_conversation
LogEntry_reply_text_only(query, response, conversation) ==
    [question |-> query,
     response |-> Response(SubSeq(response.llm.replies, 1,
                                  Min(1, Len(response.llm.replies)))),
     history |-> conversation]
LogEntry(query, response, conversation) ==
    [question |-> query, response |-> response, history |-> conversation]

\* lines 195-203: the except clauses
Handle_wraps_errors(exc) ==
    IF exc = "ValidationError"
    THEN [outcome |-> "returned", value |-> None, exc |-> None]
    ELSE [outcome |-> "raised", value |-> None, exc |-> "Exception"]
Handle_reraises_validation(exc) ==
    [outcome |-> "raised", value |-> None, exc |-> exc]
Handle_swallows_bad_request(exc) ==
    IF exc \in {"ValidationError", "BadRequestError"}
    THEN [outcome |-> "returned", value |-> None, exc |-> None]
    ELSE [outcome |-> "raised", value |-> None, exc |-> exc]
Handle(exc) ==
    IF exc = "ValidationError"
    THEN [outcome |-> "returned", value |-> None, exc |-> None]
    ELSE [outcome |-> "raised", value |-> None, exc |-> exc]

\* line 187 is inside the try block: what log_conversation raises reaches the
\* except clauses and the response text computed at lines 174-178 is dropped
OnLoggerFailure_ignored(exc, response_text) ==
    [outcome |-> "returned", value |-> response_text, exc |-> None]
OnLoggerFailure(exc, response_text) == Handle(exc)

\* lines 160-203.  stage is where the call left the try block: "run" (line 172
\* raised), "log" (line 187 raised) or "return" (line 189).  response holds the
\* raw response when line 172 returned one, else nothing; run_result and
\* log_result are what Pipeline.run and log_conversation did.  Lines 181-183
\* only write to the operational log.
TryBlock(logger, entries, query, conversation, exec, logres) ==
    IF exec.kind # "ok"
    THEN LET h == Handle(exec.kind)
         IN [executed |-> 1, response |-> <<>>, stage |-> "run",
             outcome |-> h.outcome, value |-> h.value, exc |-> h.exc,
             logged |-> 0, log |-> entries,
             run_result |-> exec.kind, log_result |-> "none"]
    ELSE LET response == exec.response
             response_text == ResponseText(response)
             entry == LogEntry(query, response, conversation)
         IN IF LoggerEnabled(logger) /\ logres # "ok"
            THEN LET h == OnLoggerFailure(logres, response_text)
                 IN [executed |-> 1, response |-> <<response>>, stage |-> "log",
                     outcome |-> h.outcome, value |-> h.value, exc |-> h.exc,
                     logged |-> 1, log |-> Append(entries, entry),
                     run_result |-> "ok", log_result |-> logres]
            ELSE [executed |-> 1, response |-> <<response>>, stage |-> "return",
                  outcome |-> "returned", value |-> response_text, exc |-> None,
                  logged |-> IF LoggerEnabled(logger) THEN 1 ELSE 0,
                  log |-> IF LoggerEnabled(logger)
                          THEN Append(entries, entry) ELSE entries,
                  run_result |-> "ok",
                  log_result |-> IF LoggerEnabled(logger) THEN "ok" ELSE "none"]

(***************************************************************************)
(* The prompt template (lines 17-39) and the execution of the graph.  A    *)
(* rendered prompt is the sequence of its non-blank lines, a line the      *)
(* sequence of its literal and substituted parts.                          *)
(***************************************************************************)
\* line 23: {% if conversation %}, false for None and for an empty list
HasConversation_not_none(conversation) == conversation.given
HasConversation(conversation) == conversation.given /\ conversation.turns # <<>>

\* lines 23-28
ConversationSection(conversation) ==
    IF HasConversation(conversation)
    THEN <<<<"Previous conversation:">>>>
         \o [k \in 1..Len(conversation.turns) |->
                <<conversation.turns[k].role, ": ", conversation.turns[k].content>>]
    ELSE <<>>

\* lines 30-34: two lines for each document, in the order received
ContextBlock_reversed(documents) ==
    <<<<"Context:">>>>
    \o [k \in 1..(2 * Len(documents)) |->
           IF k % 2 = 1
           THEN <<documents[Len(documents) - (k \div 2)].content>>
           ELSE <<"Source: ", documents[Len(documents) + 1 - (k \div 2)].meta.file_path>>]
ContextBlock(documents) ==
    <<<<"Context:">>>>
    \o [k \in 1..(2 * Len(documents)) |->
           IF k % 2 = 1
           THEN <<documents[(k + 1) \div 2].content>>
           ELSE <<"Source: ", documents[k \div 2].meta.file_path>>]

\* lines 20-36
RenderTemplate(system_prompt, conversation, documents, question) ==
    <<<<"System prompt:">>, <<system_prompt>>>>
    \o ConversationSection(conversation)
    \o ContextBlock(documents)
    \o <<<<"Question: ", question, "?">>>>

\* lines 162-169
PipelineInputs(query, conversation, cfg) ==
    [prompt_builder |-> [conversation |-> conversation, question |-> query,
                         system_prompt |-> cfg.system_prompt],
     embedder |-> [text |-> query]]

\* lines 139-141: the graph sends the output of one component to another
Feeds(pipeline, sender, receiver) ==
    \E k \in 1..Len(pipeline.edges) :
        /\ pipeline.edges[k].sender[1] = sender
        /\ pipeline.edges[k].receiver[1] = receiver

\* the components that call a backend and may raise
FailingStages == {"embedder", "retriever", "llm"}

NoRendering ==
    [ran |-> FALSE, query |-> None, conversation |-> NoConversation,
     retrieved |-> FALSE, documents |-> <<>>, rendered |-> FALSE, prompt |-> <<>>,
     llm_calls |-> 0, llm_messages |-> <<>>, kind |-> "none",
     replies |-> <<>>, response_text |-> None]

\* line 172 on the graph of lines 131-141, followed by lines 174-178: the
\* embedder, then the retriever, then the prompt builder on the retriever's
\* documents, then the generator on the prompt.  fail names the component that
\* raises exc, "none" when none does.
RunPipeline(pipeline, inputs, fail, exc, documents, replies) ==
    LET retrieved == /\ fail \notin {"embedder", "retriever"}
                     /\ Feeds(pipeline, "embedder", "retriever")
        received == IF Feeds(pipeline, "retriever", "prompt_builder")
                    THEN documents ELSE <<>>
        prompt == RenderTemplate(inputs.prompt_builder.system_prompt,
                                 inputs.prompt_builder.conversation,
                                 received,
                                 inputs.prompt_builder.question)
        invoked == retrieved /\ Feeds(pipeline, "prompt_builder", "llm")
        ok == invoked /\ fail = "none"
    IN [ran |-> TRUE,
        query |-> inputs.embedder.text,
        conversation |-> inputs.prompt_builder.conversation,
        retrieved |-> retrieved,
        documents |-> IF retrieved THEN documents ELSE <<>>,
        rendered |-> retrieved,
        prompt |-> IF retrieved THEN prompt ELSE <<>>,
        llm_calls |-> IF invoked THEN 1 ELSE 0,
        llm_messages |-> IF invoked THEN prompt ELSE <<>>,
        kind |-> IF ok THEN "ok" ELSE exc,
        replies |-> IF ok THEN replies ELSE <<>>,
        response_text |-> IF ok THEN ResponseText(Response(replies)) ELSE None]

(***************************************************************************)
(* Init: the engine after __init__ (lines 68-81).                          *)
(***************************************************************************)
NoCall ==
    [op |-> "none", query |-> None, conversation |-> NoConversation, built |-> FALSE,
     executed |-> 0, response |-> <<>>, stage |-> "none", outcome |-> "none",
     value |-> None, exc |-> None, logged |-> 0, log_before |-> 0,
     run_result |-> "none", log_result |-> "none"]

Init ==
    /\ config \in Configs
    /\ model_manager = (config.provider = OLLAMA)                 \* lines 114-119
    /\ conversation_logger = config.enable_conversation_logs     \* lines 83-103
    /\ query_pipeline = NoPipeline                                      \* line 72
    /\ available \in SUBSET ModelNames
    /\ gen = NoGenerator
    /\ log = <<>>
    /\ last = NoCall
    /\ builds = 0
    /\ calls = 0
    /\ rendering = NoRendering

(***************************************************************************)
(* Readiness actions                                                       *)
(***************************************************************************)
\* Calling the generator function creates the generator and runs none of it.
initialize_and_check_models ==
    /\ gen.pc \in {"absent", "done", "raised"}
    /\ gen' = FreshGenerator
    /\ UNCHANGED <<config, model_manager, conversation_logger, available, query_vars, prompt_vars>>

\* The attribute self.model_manager is reassigned from outside the engine
\* (dependency injection); __init__ alone never leaves an Ollama engine without
\* a manager, and line 45 guards against exactly that state.  Not done while a
\* readiness check is in flight.
replace_model_manager ==
    /\ gen.pc \in {"absent", "done", "raised"}
    /\ model_manager' \in BOOLEAN
    /\ model_manager' # model_manager
    /\ UNCHANGED <<config, conversation_logger, available, gen, query_vars, prompt_vars>>

\* next(gen) on a generator that has not started: lines 43-62 up to the first yield
GenStart ==
    /\ gen.pc = "start"
    /\ LET g == [gen EXCEPT !.nexts = @ + 1] IN
       IF UsesOllama(config.provider)
       THEN IF ManagerMissing(model_manager)
            THEN /\ gen' = OnException([g EXCEPT !.manager = Seen(model_manager)],
                                       ConfigErrorMessage)
                 /\ UNCHANGED available
            ELSE \E healthy \in BOOLEAN :
                   LET g1 == [g EXCEPT !.manager = Seen(model_manager),
                                       !.health_calls = @ + 1,
                                       !.health = IF healthy THEN "ok" ELSE "failed"]
                   IN IF ~healthy
                      THEN /\ gen' = OnException(g1, "HealthError")
                           /\ UNCHANGED available
                      ELSE LET g2 == [g1 EXCEPT !.required = RequiredModels(config)]
                           IN /\ \E plan \in NextPlans(g2, available) :
                                    gen' = LoopStep(g2, plan)
                              /\ UNCHANGED available
       ELSE /\ gen' = Deliver(g, HuggingFaceEvent, 0, "hf")
            /\ UNCHANGED available
    /\ UNCHANGED <<config, model_manager, conversation_logger, query_vars, prompt_vars>>

\* next(gen) on a generator suspended inside verify_and_pull_model
GenResumeVerify ==
    /\ gen.pc = "verify"
    /\ LET g == [gen EXCEPT !.nexts = @ + 1] IN
       IF g.rest # <<>>
       THEN /\ gen' = Deliver([g EXCEPT !.rest = Tail(@)], Head(g.rest), g.i, "verify")
            /\ UNCHANGED available
       ELSE IF g.raises
       THEN /\ gen' = OnException(g, "PullError")
            /\ UNCHANGED available
       ELSE /\ available' = HeldAfter(available, g.required[g.i], g.verdict)
            /\ \E plan \in NextPlans(g, available') :
                  gen' = LoopStep(g, plan)
    /\ UNCHANGED <<config, model_manager, conversation_logger, query_vars, prompt_vars>>

\* next(gen) on a generator suspended at line 58: the function ends
GenResumeHuggingFace ==
    /\ gen.pc = "hf"
    /\ gen' = [gen EXCEPT !.nexts = @ + 1, !.pc = "done"]
    /\ UNCHANGED <<config, model_manager, conversation_logger, available, query_vars, prompt_vars>>

\* next(gen) on a generator suspended at line 65: the raise of line 66
GenResumeError ==
    /\ gen.pc = "error"
    /\ gen' = Reraise([gen EXCEPT !.nexts = @ + 1])
    /\ UNCHANGED <<config, model_manager, conversation_logger, available, query_vars, prompt_vars>>

NextReadiness ==
    \/ initialize_and_check_models
    \/ replace_model_manager
    \/ GenStart
    \/ GenResumeVerify
    \/ GenResumeHuggingFace
    \/ GenResumeError

SpecReadiness == Init /\ [][NextReadiness]_vars

(***************************************************************************)
(* Query actions                                                           *)
(***************************************************************************)
create_query_pipeline ==
    /\ builds < MaxBuilds
    /\ \E fail_at \in 0..BuildSteps :
       \E exc \in (IF fail_at = 0 THEN {None} ELSE ExcKinds) :
          LET b == CreateQueryPipeline(query_pipeline, fail_at, exc)
          IN /\ query_pipeline' = b.pipeline
             /\ builds' = IF b.raised THEN builds ELSE builds + 1
             /\ last' = [NoCall EXCEPT !.op = "create_query_pipeline",
                                       !.built = TRUE,
                                       !.stage = "build",
                                       !.outcome = IF b.raised THEN "raised" ELSE "returned",
                                       !.exc = b.exc,
                                       !.log_before = Len(log)]
    /\ UNCHANGED <<config, conversation_logger, readiness_vars, log, calls, prompt_vars>>

run_query ==
    /\ calls < MaxCalls
    /\ calls' = calls + 1
    /\ \E query \in Queries, conversation \in Conversations :
          LET needs == NeedsBuild(query_pipeline)
              call == [NoCall EXCEPT !.op = "run_query", !.query = query,
                                     !.conversation = conversation,
                                     !.built = needs, !.log_before = Len(log)]
          IN \E fail_at \in (IF needs THEN 0..BuildSteps ELSE {0}) :
             \E build_exc \in (IF fail_at = 0 THEN {None} ELSE ExcKinds) :
                LET b == IF needs
                         THEN CreateQueryPipeline(query_pipeline, fail_at, build_exc)
                         ELSE [pipeline |-> query_pipeline, raised |-> FALSE,
                               exc |-> None]
                IN /\ query_pipeline' = b.pipeline
                   /\ builds' = IF needs /\ ~b.raised THEN builds + 1 ELSE builds
                   /\ IF b.raised
                      THEN \* the build of line 158 is outside the try block
                           /\ last' = [call EXCEPT !.stage = "build",
                                                   !.outcome = "raised",
                                                   !.exc = b.exc]
                           /\ log' = log
                      ELSE \E exec \in ExecOutcomes :
                           \E logres \in LoggerOutcomes(conversation_logger, exec) :
                              LET t == TryBlock(conversation_logger, log, query,
                                                conversation, exec, logres)
                              IN /\ last' = [call EXCEPT !.executed = t.executed,
                                                         !.response = t.response,
                                                         !.stage = t.stage,
                                                         !.outcome = t.outcome,
                                                         !.value = t.value,
                                                         !.exc = t.exc,
                                                         !.logged = t.logged,
                                                         !.run_result = t.run_result,
                                                         !.log_result = t.log_result]
                                 /\ log' = t.log
    /\ UNCHANGED <<config, conversation_logger, readiness_vars, prompt_vars>>

NextQuery ==
    \/ create_query_pipeline
    \/ run_query

\* The query side reads nothing of the readiness side: one readiness
\* configuration stands for all of them.
InitQuery ==
    /\ Init
    /\ config.provider = HUGGINGFACE
    /\ config.model_name = "llm"
    /\ config.embedding_model = "emb"
    /\ config.allow_model_pull
    /\ available = {}

SpecQuery == InitQuery /\ [][NextQuery]_vars

(***************************************************************************)
(* Prompt rendering: lines 160-178 of run_query on an installed graph,     *)
(* with Pipeline.run expanded into the stages of the graph.  The except    *)
(* clauses and the conversation log, which do not read the prompt, are in  *)
(* run_query above.  An execution reads nothing of an earlier one, so the  *)
(* first execution of a behaviour stands for all of them.                  *)
(***************************************************************************)
run_pipeline ==
    /\ query_pipeline.present
    /\ ~rendering.ran
    /\ \E query \in Queries, conversation \in PromptConversations,
          fail \in {"none"} \cup FailingStages :
       \E exc \in (IF fail = "none" THEN {None} ELSE ExcKinds) :
       \E documents \in (IF fail \in {"embedder", "retriever"} THEN {<<>>} ELSE DocSeqs) :
       \E replies \in (IF fail = "none" THEN ReplySeqs ELSE {<<>>}) :
          rendering' = RunPipeline(query_pipeline,
                                   PipelineInputs(query, conversation, config),
                                   fail, exc, documents, replies)
    /\ UNCHANGED <<config, conversation_logger, readiness_vars, query_vars>>

NextPrompt ==
    \/ create_query_pipeline
    \/ run_pipeline

SpecPrompt == InitQuery /\ [][NextPrompt]_vars

\* the whole engine
Next == NextReadiness \/ NextQuery \/ run_pipeline

Spec == Init /\ [][Next]_vars

(***************************************************************************)
(* Readiness claims                                                        *)
(***************************************************************************)
Started == gen.pc \notin {"absent", "start"}
Finished == gen.pc \in {"done", "raised"}
IsErrorEvent(ev) == ev.type = "model_status" /\ ev.status = "error"
ErrorEvents == {k \in 1..Len(gen.events) : gen.events[k].status = "error"}

\* C1: with provider OLLAMA, when check_server_health raises, the caller
\* receives exactly one event, a model_status error event; no model is verified;
\* and the exception leaves the generator only on the request after that event.
C1_HealthFailure ==
    gen.health = "failed" =>
        /\ config.provider = OLLAMA
        /\ Len(gen.events) = 1
        /\ IsErrorEvent(gen.events[1])
        /\ gen.verify_calls = <<>>
        /\ gen.pc \in {"error", "raised"}
        /\ (gen.pc = "error" => gen.nexts = 1)
        /\ (gen.pc = "raised" => gen.nexts = 2)

C1_Witness == gen.health = "failed" /\ gen.pc = "raised"

\* C2 as stated: with provider OLLAMA and no model manager, the configuration
\* error is raised at once and no event is yielded before it.
C2_Original ==
    gen.manager = "missing" => (gen.events = <<>> /\ gen.pc = "raised")

\* C2 as amended: with provider OLLAMA and no model manager, the configuration
\* error is first yielded as exactly one model_status error event carrying its
\* message, with no health probe and no verification, and is raised on the
\* request after that event.
C2_ConfigErrorIsYielded ==
    (Started /\ config.provider = OLLAMA /\ gen.manager # "present") =>
        /\ gen.manager = "missing"
        /\ gen.events = <<ErrorEvent(ConfigErrorMessage)>>
        /\ gen.exc = ConfigErrorMessage
        /\ gen.health_calls = 0
        /\ gen.verify_calls = <<>>
        /\ gen.pc \in {"error", "raised"}
        /\ (gen.pc = "error" => gen.nexts = 1)
        /\ (gen.pc = "raised" => gen.nexts = 2)

C2_Witness == gen.manager = "missing" /\ gen.pc = "raised"

\* C3: with any provider other than OLLAMA the caller receives exactly one
\* event, a model_status success event, the sequence then ends without
\* raising, and neither check_server_health nor verify_and_pull_model is called.
C3_HuggingFace ==
    (Started /\ config.provider # OLLAMA) =>
        /\ Len(gen.events) = 1
        /\ gen.events[1].type = "model_status"
        /\ gen.events[1].status = "success"
        /\ gen.pc \in {"hf", "done"}
        /\ gen.exc = None
        /\ gen.health_calls = 0
        /\ gen.verify_calls = <<>>
        /\ (gen.pc = "hf" => gen.nexts = 1)
        /\ (gen.pc = "done" => gen.nexts = 2)

C3_Witness == config.provider = HUGGINGFACE /\ model_manager /\ gen.pc = "done"

ModelNameForbidden == gen.verdicts # <<>> /\ gen.verdicts[1] = "forbidden"

\* C4 as stated: when model_name is absent and pulling is forbidden, an error
\* event is emitted, embedding_model is still verified and its events reach the
\* caller, and after all of them have been surfaced the caller is failed.
C4_Original ==
    (ModelNameForbidden /\ Finished) =>
        /\ Len(gen.verify_calls) = 2
        /\ gen.pc = "raised"

\* C4 as amended: when model_name is absent and pulling is forbidden, an error
\* event is emitted for it, the check is not aborted, embedding_model is then
\* verified and its event reaches the caller, and the sequence ends normally:
\* no exception is raised, the error event alone reports the failure.
C4_ForbiddenPullContinues ==
    ModelNameForbidden =>
        /\ gen.events[1] = Event("error", config.model_name)
        /\ gen.origin[1] = 1
        /\ gen.pc \in {"verify", "done"}
        /\ gen.exc = None
        /\ (gen.nexts = 1 => gen.verify_calls = <<config.model_name>>)
        /\ (gen.nexts >= 2 =>
               /\ gen.verify_calls = <<config.model_name, config.embedding_model>>
               /\ Len(gen.events) = 2
               /\ gen.origin = <<1, 2>>)
        /\ (gen.pc = "done" <=> gen.nexts = 3)

C4_Witness ==
    /\ ModelNameForbidden
    /\ gen.pc = "done"
    /\ gen.origin = <<1, 2>>
    /\ gen.events[2].status = "success"

AllAvailable ==
    /\ gen.health = "ok"
    /\ \A k \in 1..Len(gen.verdicts) : gen.verdicts[k] = "available"

\* C5: with provider OLLAMA, a reachable backend and both model_name and
\* embedding_model already available, the caller receives exactly 2 events, one
\* per required model, none with status error, and the sequence ends without
\* raising.
C5_FullyProvisioned ==
    AllAvailable =>
        /\ config.provider = OLLAMA
        /\ ErrorEvents = {}
        /\ gen.exc = None
        /\ gen.pc \in {"verify", "done"}
        /\ Len(gen.events) = Len(gen.verdicts)
        /\ \A k \in 1..Len(gen.events) : gen.origin[k] = k
        /\ (gen.pc = "done" =>
               /\ Len(gen.events) = 2
               /\ gen.verify_calls = <<config.model_name, config.embedding_model>>)

C5_Witness ==
    /\ AllAvailable
    /\ gen.pc = "done"
    /\ Len(gen.events) = 2
    /\ config.model_name # config.embedding_model

ModelEvents(i) == {k \in 1..Len(gen.events) : gen.origin[k] = i}

\* C12: with provider OLLAMA the health probe has completed before any model
\* event is yielded; model_name is verified first; every event of model_name,
\* pull progress included, precedes the start of the verification of
\* embedding_model; the events of the two models are never interleaved.
C12_StrictOrder ==
    /\ (gen.verify_calls # <<>> => (gen.health = "ok" /\ gen.health_calls = 1))
    /\ gen.i = Len(gen.verify_calls)
    /\ gen.verify_calls
          = SubSeq(<<config.model_name, config.embedding_model>>, 1, gen.i)
    /\ \A k \in 1..Len(gen.events) :
          /\ gen.origin[k] \in 0..gen.i
          /\ gen.origin[k] # 0 => gen.events[k].detail = gen.verify_calls[gen.origin[k]]
    /\ \A j, k \in 1..Len(gen.events) :
          (j < k /\ gen.origin[k] # 0) => (gen.origin[j] # 0 /\ gen.origin[j] <= gen.origin[k])
    /\ (gen.i = 2 =>
           /\ ModelEvents(1) # {}
           /\ \A k \in ModelEvents(1) :
                 (k + 1 \notin ModelEvents(1)) => gen.events[k].status # "in_progress")

C12_Witness ==
    /\ gen.pc = "done"
    /\ gen.verdicts = <<"pulled", "pulled">>
    /\ gen.origin = <<1, 1, 1, 2, 2>>
    /\ config.model_name # config.embedding_model

NothingRan(g) ==
    /\ g.health_calls = 0
    /\ g.verify_calls = <<>>
    /\ g.events = <<>>

\* C13: the check is pull-driven.  Creating the generator runs no health probe
\* and no verification; a probe, a verification or an event happens only in a
\* step in which the caller requests the next event, at most one event per
\* request; so while the caller does not request, a verification of model_name
\* in progress stays where it is and that of embedding_model does not start.
C13_PullDriven ==
    /\ [](gen.pc \in {"absent", "start"} => NothingRan(gen))
    /\ [](Len(gen.events) <= gen.nexts)
    /\ [][(\/ gen'.health_calls # gen.health_calls
           \/ gen'.verify_calls # gen.verify_calls
           \/ gen'.events # gen.events
           \/ gen'.pc # gen.pc)
          => \/ gen'.nexts = gen.nexts + 1
             \/ (gen'.pc = "start" /\ gen'.nexts = 0 /\ NothingRan(gen'))]_vars

C13_Witness ==
    /\ gen.pc = "verify"
    /\ gen.i = 1
    /\ gen.rest # <<>>
    /\ gen.nexts = 1
    /\ gen.verify_calls = <<config.model_name>>

(***************************************************************************)
(* Query claims                                                            *)
(***************************************************************************)
Queried == last.op = "run_query"

\* C6: when pipeline execution inside run_query raises a validation error,
\* run_query returns the "no answer" value None and raises nothing.
C6_ValidationRecovered ==
    (Queried /\ last.run_result = "ValidationError") =>
        /\ last.outcome = "returned"
        /\ last.value = None
        /\ last.exc = None

C6_Witness ==
    /\ Queried
    /\ last.run_result = "ValidationError"
    /\ last.outcome = "returned"
    /\ conversation_logger

\* C7: when pipeline execution raises BadRequestError, run_query raises that
\* error and log_conversation is not called, with logging enabled or not.
C7_BadRequestRaisedUnlogged ==
    (Queried /\ last.run_result = "BadRequestError") =>
        /\ last.outcome = "raised"
        /\ last.exc = "BadRequestError"
        /\ last.logged = 0
        /\ Len(log) = last.log_before

C7_Witness ==
    /\ Queried
    /\ last.run_result = "BadRequestError"
    /\ last.outcome = "raised"
    /\ conversation_logger
    /\ last.log_before = 1

\* C8: with conversation logging enabled, every run_query call that succeeds
\* records exactly one log entry, holding the question, the full raw pipeline
\* response and the conversation history that was passed in.
C8_OneFullLogEntry ==
    (Queried /\ conversation_logger /\ last.stage = "return") =>
        /\ last.logged = 1
        /\ Len(log) = last.log_before + 1
        /\ log[Len(log)] = [question |-> last.query,
                            response |-> last.response[1],
                            history |-> last.conversation]

C8_Witness ==
    /\ Queried
    /\ conversation_logger
    /\ last.stage = "return"
    /\ calls = 2
    /\ Len(log) = 2
    /\ Len(log[2].response.llm.replies) = 2
    /\ log[1].question # log[2].question

FirstReplyOrNone ==
    IF last.response[1].llm.replies = <<>>
    THEN None
    ELSE last.response[1].llm.replies[1].text

Endpoints(edge) == <<edge.sender[1], edge.receiver[1]>>

\* C10: building twice, or any number of times, replaces the graph: an
\* installed graph has exactly the 4 nodes embedder, retriever, prompt_builder,
\* generator (llm) and exactly the 3 edges embedder to retriever, retriever to
\* prompt_builder, prompt_builder to generator.
C10_BuildReplacesGraph ==
    query_pipeline.present =>
        /\ Len(query_pipeline.nodes) = 4
        /\ {query_pipeline.nodes[k] : k \in 1..Len(query_pipeline.nodes)}
              = {"embedder", "retriever", "prompt_builder", "llm"}
        /\ Len(query_pipeline.edges) = 3
        /\ {Endpoints(query_pipeline.edges[k]) : k \in 1..Len(query_pipeline.edges)}
              = {<<"embedder", "retriever">>, <<"retriever", "prompt_builder">>,
                 <<"prompt_builder", "llm">>}

C10_Witness ==
    /\ builds = 2
    /\ last.op = "create_query_pipeline"
    /\ last.outcome = "returned"
    /\ query_pipeline.present

RunQueryStep == last'.op = "run_query" /\ calls' = calls + 1

\* C14: across any sequence of run_query calls the graph is built on demand
\* by a call that finds none and is then reused: a run_query call that finds a
\* graph installed does not invoke create_query_pipeline and leaves the graph
\* as it is, whether the call returns text, returns None or raises.
C14_BuiltOnceThenReused ==
    /\ [][(RunQueryStep /\ query_pipeline.present) =>
             (/\ ~last'.built
              /\ builds' = builds
              /\ query_pipeline' = query_pipeline)]_vars
    /\ [][(RunQueryStep /\ ~query_pipeline.present) =>
             (/\ last'.built
              /\ builds' = builds + (IF query_pipeline'.present THEN 1 ELSE 0))]_vars
    /\ [](query_pipeline.present <=> builds > 0)

C14_Witness ==
    /\ Queried
    /\ calls = 2
    /\ builds = 1
    /\ ~last.built
    /\ last.outcome = "raised"
    /\ last.executed = 1

C16_OnlyValidationSwallowed ==
    Queried =>
        /\ last.executed <= 1
        /\ (last.run_result \in ExcKinds \ {"ValidationError"} =>
               (last.outcome = "raised" /\ last.exc = last.run_result))
        /\ ((last.run_result \in ExcKinds /\ last.outcome = "returned") =>
               (last.run_result = "ValidationError" /\ last.value = None))
        /\ (last.outcome = "raised" =>
               last.exc \in {last.run_result, last.log_result}
                            \cup (IF last.stage = "build" THEN ExcKinds ELSE {}))

C16_Witness ==
    /\ Queried
    /\ last.run_result = "Exception"
    /\ last.outcome = "raised"
    /\ last.exc = "Exception"
    /\ last.executed = 1

CompleteGraph(p) ==
    /\ p.nodes = Components
    /\ p.edges = Connections

\* C19: a create_query_pipeline call that raises leaves the engine's graph as
\* it was: absent if no build had succeeded, the previous complete graph
\* otherwise; a partially wired graph is never installed.  When the on-demand
\* build inside run_query fails, the exception reaches the caller, a validation
\* error included, the pipeline is not executed, nothing is logged, and the
\* next run_query call attempts the build again.
C19_FailedBuildChangesNothing ==
    /\ [][(last'.stage = "build" /\ last'.outcome = "raised") =>
             (query_pipeline' = query_pipeline /\ builds' = builds)]_vars
    /\ [](query_pipeline.present => CompleteGraph(query_pipeline))
    /\ []((Queried /\ last.stage = "build") =>
             (/\ last.built
              /\ last.outcome = "raised"
              /\ last.exc \in ExcKinds
              /\ last.executed = 0
              /\ last.logged = 0
              /\ Len(log) = last.log_before
              /\ ~query_pipeline.present))
    /\ [][(RunQueryStep /\ Queried /\ last.stage = "build") => last'.built]_vars

C19_Witness ==
    /\ Queried
    /\ calls = 2
    /\ last.stage = "build"
    /\ last.exc = "ValidationError"
    /\ last.outcome = "raised"
    /\ ~query_pipeline.present

\* C20: when log_conversation raises in a run_query call whose pipeline
\* execution succeeded, the generated text is not returned: a validation error
\* of the logger makes run_query return None, any other exception of the logger
\* is re-raised to the caller.
C20_LoggerFailureDropsResult ==
    (Queried /\ last.log_result \in ExcKinds) =>
        /\ conversation_logger
        /\ last.run_result = "ok"
        /\ last.value = None
        /\ (last.log_result = "ValidationError" =>
               (last.outcome = "returned" /\ last.exc = None))
        /\ (last.log_result # "ValidationError" =>
               (last.outcome = "raised" /\ last.exc = last.log_result))

C20_Witness ==
    /\ Queried
    /\ last.log_result = "ValidationError"
    /\ last.response # <<>>
    /\ Len(last.response[1].llm.replies) = 2
    /\ last.outcome = "returned"
    /\ last.value = None

(***************************************************************************)
(* Prompt claims                                                           *)
(***************************************************************************)
PromptLines(line) == {k \in 1..Len(rendering.prompt) : rendering.prompt[k] = line}
ContextAt == CHOOSE k \in PromptLines(<<"Context:">>) : TRUE
QuestionAt == Len(rendering.prompt)

\* C17: the rendered prompt has the conversation section exactly when the
\* conversation passed in is non-empty: None and the empty list give no
\* section at all, and a non-empty history gives the section with every turn
\* once, as role: content, in the original order.
C17_ConversationSection ==
    rendering.rendered =>
        LET turns == rendering.conversation.turns
            nonempty == rendering.conversation.given /\ turns # <<>>
        IN /\ Cardinality(PromptLines(<<"Context:">>)) = 1
           /\ (PromptLines(<<"Previous conversation:">>) # {} <=> nonempty)
           /\ (~nonempty => ContextAt = 3)
           /\ (nonempty =>
                  /\ PromptLines(<<"Previous conversation:">>) = {3}
                  /\ ContextAt = 4 + Len(turns)
                  /\ \A k \in 1..Len(turns) :
                        rendering.prompt[3 + k] = <<turns[k].role, ": ", turns[k].content>>)

C17_Witness ==
    /\ rendering.rendered
    /\ rendering.conversation.turns = <<Turn2, Turn>>
    /\ rendering.prompt[4] = <<"assistant", ": ", "hi there">>
    /\ rendering.prompt[5] = <<"user", ": ", "hello">>

====
